---- MODULE Spec2Model ----
(***************************************************************************)
(* Broker response error classification of afkak (afkak/common.py): the    *)
(* BrokerResponseError class family, the BrokerResponseError.errnos        *)
(* registry and _check_error, over a small model of Python objects         *)
(* (classes with attribute dictionaries, instances on a heap, attribute    *)
(* lookup through the instance and then the base classes).                 *)
(***************************************************************************)
EXTENDS Integers, Sequences, FiniteSets, TLC

VARIABLES
    errnos,   \* BrokerResponseError.errnos: error code -> class
    classes,  \* class name -> [base, dict] (the class attribute dictionaries)
    heap,     \* the exception instances built so far: [cls, dict]
    frames,   \* the _check_error activations running concurrently
    log       \* the calls completed by the sequential caller, in order

vars == <<errnos, classes, heap, frames, log>>

(***************************************************************************)
(* Bounds of the model.                                                    *)
(***************************************************************************)
\* codes 0 .. MaxCode are classified (the registry ends at 72)
MaxCode == 75
\* codes -MaxNegCode .. -1 are classified (the registry holds -1 only)
MaxNegCode == 3
\* one code far outside the table
LargeCode == 9999
\* calls on one code a sequential caller makes
MaxCalls == 2
\* calls on a mix of codes a sequential caller makes
MaxSeqCalls == 3
\* _check_error activations running concurrently
NumCallers == 2

(***************************************************************************)
(* Python values.                                                          *)
(***************************************************************************)
NoneValue == [type |-> "NoneType"]

Str(s) == [type |-> "str", value |-> s]

IntValue(n) == [type |-> "int", value |-> n]

Class(name) == [type |-> "type", name |-> name]

Ref(o) == [type |-> "object", id |-> o]

AttributeError == [type |-> "AttributeError"]

NoAttrs == [n \in {} |-> NoneValue]

(***************************************************************************)
(* The BrokerResponseError family.  A variant declares errno and message   *)
(* and inherits retriable from its base.                                   *)
(***************************************************************************)
\* Variant with a copy-and-paste slip: the class of code 18 declares errno 19
VariantErrnoSlip(base, errno, message) ==
    [base |-> base,
     dict |-> [errno |-> IF errno = 18 THEN 19 ELSE errno,
               message |-> Str(message)]]

Variant(base, errno, message) ==
    [base |-> base, dict |-> [errno |-> errno, message |-> Str(message)]]

ClassDecls ==
  [
    KafkaError |->
        [base |-> "Exception", dict |-> NoAttrs],
    BrokerResponseError |->
        [base |-> "KafkaError",
         dict |-> [retriable |-> FALSE, message |-> NoneValue]],
    RetriableBrokerResponseError |->
        [base |-> "BrokerResponseError", dict |-> [retriable |-> TRUE]],
    UnknownError |->
        Variant("BrokerResponseError", -1, "UNKNOWN_SERVER_ERROR"),
    OffsetOutOfRangeError |->
        Variant("BrokerResponseError", 1, "OFFSET_OUT_OF_RANGE"),
    CorruptMessage |->
        Variant("RetriableBrokerResponseError", 2, "CORRUPT_MESSAGE"),
    UnknownTopicOrPartitionError |->
        Variant("RetriableBrokerResponseError", 3, "UNKNOWN_TOPIC_OR_PARTITION"),
    InvalidFetchRequestError |->
        Variant("BrokerResponseError", 4, "INVALID_FETCH_SIZE"),
    LeaderNotAvailableError |->
        Variant("RetriableBrokerResponseError", 5, "LEADER_NOT_AVAILABLE"),
    NotLeaderForPartitionError |->
        Variant("RetriableBrokerResponseError", 6, "NOT_LEADER_FOR_PARTITION"),
    RequestTimedOutError |->
        Variant("RetriableBrokerResponseError", 7, "REQUEST_TIMED_OUT"),
    BrokerNotAvailableError |->
        Variant("BrokerResponseError", 8, "BROKER_NOT_AVAILABLE"),
    ReplicaNotAvailableError |->
        Variant("BrokerResponseError", 9, "REPLICA_NOT_AVAILABLE"),
    MessageSizeTooLargeError |->
        Variant("BrokerResponseError", 10, "MESSAGE_SIZE_TOO_LARGE"),
    StaleControllerEpochError |->
        Variant("BrokerResponseError", 11, "STALE_CONTROLLER_EPOCH"),
    OffsetMetadataTooLargeError |->
        Variant("BrokerResponseError", 12, "OFFSET_METADATA_TOO_LARGE"),
    NetworkException |->
        Variant("RetriableBrokerResponseError", 13, "NETWORK_EXCEPTION"),
    CoordinatorLoadInProgress |->
        Variant("RetriableBrokerResponseError", 14, "COORDINATOR_LOAD_IN_PROGRESS"),
    CoordinatorNotAvailable |->
        Variant("RetriableBrokerResponseError", 15, "COORDINATOR_NOT_AVAILABLE"),
    NotCoordinator |->
        Variant("RetriableBrokerResponseError", 16, "NOT_COORDINATOR"),
    InvalidTopic |->
        Variant("BrokerResponseError", 17, "INVALID_TOPIC_EXCEPTION"),
    RecordListTooLarge |->
        Variant("BrokerResponseError", 18, "RECORD_LIST_TOO_LARGE"),
    NotEnoughReplicas |->
        Variant("RetriableBrokerResponseError", 19, "NOT_ENOUGH_REPLICAS"),
    NotEnoughReplicasAfterAppend |->
        Variant("RetriableBrokerResponseError", 20, "NOT_ENOUGH_REPLICAS_AFTER_APPEND"),
    InvalidRequiredAcks |->
        Variant("BrokerResponseError", 21, "INVALID_REQUIRED_ACKS"),
    IllegalGeneration |->
        Variant("BrokerResponseError", 22, "ILLEGAL_GENERATION"),
    InconsistentGroupProtocol |->
        Variant("BrokerResponseError", 23, "INCONSISTENT_GROUP_PROTOCOL"),
    InvalidGroupId |->
        Variant("BrokerResponseError", 24, "INVALID_GROUP_ID"),
    UnknownMemberId |->
        Variant("BrokerResponseError", 25, "UNKNOWN_MEMBER_ID"),
    InvalidSessionTimeout |->
        Variant("BrokerResponseError", 26, "INVALID_SESSION_TIMEOUT"),
    RebalanceInProgress |->
        Variant("BrokerResponseError", 27, "REBALANCE_IN_PROGRESS"),
    InvalidCommitOffsetSize |->
        Variant("BrokerResponseError", 28, "INVALID_COMMIT_OFFSET_SIZE"),
    TopicAuthorizationFailed |->
        Variant("BrokerResponseError", 29, "TOPIC_AUTHORIZATION_FAILED"),
    GroupAuthorizationFailed |->
        Variant("BrokerResponseError", 30, "GROUP_AUTHORIZATION_FAILED"),
    ClusterAuthorizationFailed |->
        Variant("BrokerResponseError", 31, "CLUSTER_AUTHORIZATION_FAILED"),
    InvalidTimestamp |->
        Variant("BrokerResponseError", 32, "INVALID_TIMESTAMP"),
    UnsupportedSaslMechanism |->
        Variant("BrokerResponseError", 33, "UNSUPPORTED_SASL_MECHANISM"),
    IllegalSaslState |->
        Variant("BrokerResponseError", 34, "ILLEGAL_SASL_STATE"),
    UnsupportedVersion |->
        Variant("BrokerResponseError", 35, "UNSUPPORTED_VERSION"),
    TopicAlreadyExists |->
        Variant("BrokerResponseError", 36, "TOPIC_ALREADY_EXISTS"),
    InvalidPartitions |->
        Variant("BrokerResponseError", 37, "INVALID_PARTITIONS"),
    InvalidReplicationFactor |->
        Variant("BrokerResponseError", 38, "INVALID_REPLICATION_FACTOR"),
    InvalidReplicaAssignment |->
        Variant("BrokerResponseError", 39, "INVALID_REPLICA_ASSIGNMENT"),
    InvalidConfig |->
        Variant("BrokerResponseError", 40, "INVALID_CONFIG"),
    NotController |->
        Variant("RetriableBrokerResponseError", 41, "NOT_CONTROLLER"),
    InvalidRequest |->
        Variant("BrokerResponseError", 42, "INVALID_REQUEST"),
    UnsupportedForMessageFormat |->
        Variant("BrokerResponseError", 43, "UNSUPPORTED_FOR_MESSAGE_FORMAT"),
    PolicyViolation |->
        Variant("BrokerResponseError", 44, "POLICY_VIOLATION"),
    OutOfOrderSequenceNumber |->
        Variant("BrokerResponseError", 45, "OUT_OF_ORDER_SEQUENCE_NUMBER"),
    DuplicateSequenceNumber |->
        Variant("BrokerResponseError", 46, "DUPLICATE_SEQUENCE_NUMBER"),
    InvalidProducerEpoch |->
        Variant("BrokerResponseError", 47, "INVALID_PRODUCER_EPOCH"),
    InvalidTxnState |->
        Variant("BrokerResponseError", 48, "INVALID_TXN_STATE"),
    InvalidProducerIdMapping |->
        Variant("BrokerResponseError", 49, "INVALID_PRODUCER_ID_MAPPING"),
    InvalidTransactionTimeout |->
        Variant("BrokerResponseError", 50, "INVALID_TRANSACTION_TIMEOUT"),
    ConcurrentTransactions |->
        Variant("BrokerResponseError", 51, "CONCURRENT_TRANSACTIONS"),
    TransactionCoordinatorFenced |->
        Variant("BrokerResponseError", 52, "TRANSACTION_COORDINATOR_FENCED"),
    TransactionalIdAuthorizationFailed |->
        Variant("BrokerResponseError", 53, "TRANSACTIONAL_ID_AUTHORIZATION_FAILED"),
    SecurityDisabled |->
        Variant("BrokerResponseError", 54, "SECURITY_DISABLED"),
    OperationNotAttempted |->
        Variant("BrokerResponseError", 55, "OPERATION_NOT_ATTEMPTED"),
    KafkaStorageError |->
        Variant("RetriableBrokerResponseError", 56, "KAFKA_STORAGE_ERROR"),
    LogDirNotFound |->
        Variant("BrokerResponseError", 57, "LOG_DIR_NOT_FOUND"),
    SaslAuthenticationFailed |->
        Variant("BrokerResponseError", 58, "SASL_AUTHENTICATION_FAILED"),
    UnknownProducerId |->
        Variant("BrokerResponseError", 59, "UNKNOWN_PRODUCER_ID"),
    ReassignmentInProgress |->
        Variant("BrokerResponseError", 60, "REASSIGNMENT_IN_PROGRESS"),
    DelegationTokenAuthDisabled |->
        Variant("BrokerResponseError", 61, "DELEGATION_TOKEN_AUTH_DISABLED"),
    DelegationTokenNotFound |->
        Variant("BrokerResponseError", 62, "DELEGATION_TOKEN_NOT_FOUND"),
    DelegationTokenOwnerMismatch |->
        Variant("BrokerResponseError", 63, "DELEGATION_TOKEN_OWNER_MISMATCH"),
    DelegationTokenRequestNotAllowed |->
        Variant("BrokerResponseError", 64, "DELEGATION_TOKEN_REQUEST_NOT_ALLOWED"),
    DelegationTokenAuthorizationFailed |->
        Variant("BrokerResponseError", 65, "DELEGATION_TOKEN_AUTHORIZATION_FAILED"),
    DelegationTokenExpired |->
        Variant("BrokerResponseError", 66, "DELEGATION_TOKEN_EXPIRED"),
    InvalidPrincipalType |->
        Variant("BrokerResponseError", 67, "INVALID_PRINCIPAL_TYPE"),
    NonEmptyGroup |->
        Variant("BrokerResponseError", 68, "NON_EMPTY_GROUP"),
    GroupIdNotFound |->
        Variant("BrokerResponseError", 69, "GROUP_ID_NOT_FOUND"),
    FetchSessionIdNotFound |->
        Variant("RetriableBrokerResponseError", 70, "FETCH_SESSION_ID_NOT_FOUND"),
    InvalidFetchSessionEpoch |->
        Variant("RetriableBrokerResponseError", 71, "INVALID_FETCH_SESSION_EPOCH"),
    ListenerNotFound |->
        Variant("RetriableBrokerResponseError", 72, "LISTENER_NOT_FOUND")
  ]

(***************************************************************************)
(* The registry, as assigned at module import.                             *)
(***************************************************************************)
BrokerResponseError_errnos ==
  (-1 :> Class("UnknownError")) @@
  (1 :> Class("OffsetOutOfRangeError")) @@
  (2 :> Class("CorruptMessage")) @@
  (3 :> Class("UnknownTopicOrPartitionError")) @@
  (4 :> Class("InvalidFetchRequestError")) @@
  (5 :> Class("LeaderNotAvailableError")) @@
  (6 :> Class("NotLeaderForPartitionError")) @@
  (7 :> Class("RequestTimedOutError")) @@
  (8 :> Class("BrokerNotAvailableError")) @@
  (9 :> Class("ReplicaNotAvailableError")) @@
  (10 :> Class("MessageSizeTooLargeError")) @@
  (11 :> Class("StaleControllerEpochError")) @@
  (12 :> Class("OffsetMetadataTooLargeError")) @@
  (13 :> Class("NetworkException")) @@
  (14 :> Class("CoordinatorLoadInProgress")) @@
  (15 :> Class("CoordinatorNotAvailable")) @@
  (16 :> Class("NotCoordinator")) @@
  (17 :> Class("InvalidTopic")) @@
  (18 :> Class("RecordListTooLarge")) @@
  (19 :> Class("NotEnoughReplicas")) @@
  (20 :> Class("NotEnoughReplicasAfterAppend")) @@
  (21 :> Class("InvalidRequiredAcks")) @@
  (22 :> Class("IllegalGeneration")) @@
  (23 :> Class("InconsistentGroupProtocol")) @@
  (24 :> Class("InvalidGroupId")) @@
  (25 :> Class("UnknownMemberId")) @@
  (26 :> Class("InvalidSessionTimeout")) @@
  (27 :> Class("RebalanceInProgress")) @@
  (28 :> Class("InvalidCommitOffsetSize")) @@
  (29 :> Class("TopicAuthorizationFailed")) @@
  (30 :> Class("GroupAuthorizationFailed")) @@
  (31 :> Class("ClusterAuthorizationFailed")) @@
  (32 :> Class("InvalidTimestamp")) @@
  (33 :> Class("UnsupportedSaslMechanism")) @@
  (34 :> Class("IllegalSaslState")) @@
  (35 :> Class("UnsupportedVersion")) @@
  (36 :> Class("TopicAlreadyExists")) @@
  (37 :> Class("InvalidPartitions")) @@
  (38 :> Class("InvalidReplicationFactor")) @@
  (39 :> Class("InvalidReplicaAssignment")) @@
  (40 :> Class("InvalidConfig")) @@
  (41 :> Class("NotController")) @@
  (42 :> Class("InvalidRequest")) @@
  (43 :> Class("UnsupportedForMessageFormat")) @@
  (44 :> Class("PolicyViolation")) @@
  (45 :> Class("OutOfOrderSequenceNumber")) @@
  (46 :> Class("DuplicateSequenceNumber")) @@
  (47 :> Class("InvalidProducerEpoch")) @@
  (48 :> Class("InvalidTxnState")) @@
  (49 :> Class("InvalidProducerIdMapping")) @@
  (50 :> Class("InvalidTransactionTimeout")) @@
  (51 :> Class("ConcurrentTransactions")) @@
  (52 :> Class("TransactionCoordinatorFenced")) @@
  (53 :> Class("TransactionalIdAuthorizationFailed")) @@
  (54 :> Class("SecurityDisabled")) @@
  (55 :> Class("OperationNotAttempted")) @@
  (56 :> Class("KafkaStorageError")) @@
  (57 :> Class("LogDirNotFound")) @@
  (58 :> Class("SaslAuthenticationFailed")) @@
  (59 :> Class("UnknownProducerId")) @@
  (60 :> Class("ReassignmentInProgress")) @@
  (61 :> Class("DelegationTokenAuthDisabled")) @@
  (62 :> Class("DelegationTokenNotFound")) @@
  (63 :> Class("DelegationTokenOwnerMismatch")) @@
  (64 :> Class("DelegationTokenRequestNotAllowed")) @@
  (65 :> Class("DelegationTokenAuthorizationFailed")) @@
  (66 :> Class("DelegationTokenExpired")) @@
  (67 :> Class("InvalidPrincipalType")) @@
  (68 :> Class("NonEmptyGroup")) @@
  (69 :> Class("GroupIdNotFound")) @@
  (70 :> Class("FetchSessionIdNotFound")) @@
  (71 :> Class("InvalidFetchSessionEpoch")) @@
  (72 :> Class("ListenerNotFound"))

(***************************************************************************)
(* Compatibility aliases: module-level names bound to an existing class.   *)
(***************************************************************************)
\* Aliases with the name for code 13 bound to the class of code 11
AliasesMisbound ==
    [InvalidMessageError |-> Class("CorruptMessage"),
     StaleLeaderEpochCodeError |-> Class("StaleControllerEpochError"),
     OffsetsLoadInProgressError |-> Class("CoordinatorLoadInProgress"),
     ConsumerCoordinatorNotAvailableError |-> Class("CoordinatorNotAvailable"),
     NotCoordinatorForConsumerError |-> Class("NotCoordinator")]

Aliases ==
    [InvalidMessageError |-> Class("CorruptMessage"),
     StaleLeaderEpochCodeError |-> Class("NetworkException"),
     OffsetsLoadInProgressError |-> Class("CoordinatorLoadInProgress"),
     ConsumerCoordinatorNotAvailableError |-> Class("CoordinatorNotAvailable"),
     NotCoordinatorForConsumerError |-> Class("NotCoordinator")]

\* The module namespace: every class statement binds its own name, every
\* alias assignment binds one more name to the class it names.
ModuleNames == [n \in DOMAIN ClassDecls |-> Class(n)] @@ Aliases

(***************************************************************************)
(* Response payloads (namedtuples).                                        *)
(***************************************************************************)
ProduceResponse(topic, partition, error, offset) ==
    [type |-> "ProduceResponse", topic |-> topic, partition |-> partition,
     error |-> error, offset |-> offset]

FetchResponse(topic, partition, error, highwaterMark, messages) ==
    [type |-> "FetchResponse", topic |-> topic, partition |-> partition,
     error |-> error, highwaterMark |-> highwaterMark, messages |-> messages]

OffsetResponse(topic, partition, error, offsets) ==
    [type |-> "OffsetResponse", topic |-> topic, partition |-> partition,
     error |-> error, offsets |-> offsets]

OffsetCommitResponse(topic, partition, error) ==
    [type |-> "OffsetCommitResponse", topic |-> topic,
     partition |-> partition, error |-> error]

OffsetFetchResponse(topic, partition, offset, metadata, error) ==
    [type |-> "OffsetFetchResponse", topic |-> topic, partition |-> partition,
     offset |-> offset, metadata |-> metadata, error |-> error]

ConsumerMetadataResponse(error, node_id, host, port) ==
    [type |-> "ConsumerMetadataResponse", error |-> error,
     node_id |-> node_id, host |-> host, port |-> port]

(***************************************************************************)
(* Objects: instantiation, attribute store and attribute lookup.           *)
(***************************************************************************)
\* cls(): a new instance with an empty instance dictionary
Instantiate(h, cls) == Append(h, [cls |-> cls.name, dict |-> NoAttrs])

\* obj.name = value: a store into the instance dictionary
SetAttr(h, o, name, value) ==
    [h EXCEPT ![o].dict = (name :> value) @@ @]

\* ClassLookup that reads the class's own dictionary only, not its bases
ClassLookupOwn(cs, c, name) ==
    IF c \in DOMAIN cs /\ name \in DOMAIN cs[c].dict
    THEN [found |-> TRUE, value |-> cs[c].dict[name]]
    ELSE [found |-> FALSE]

\* lookup of a class attribute along the base classes
RECURSIVE ClassLookup(_, _, _)
ClassLookup(cs, c, name) ==
    IF c \notin DOMAIN cs
    THEN [found |-> FALSE]
    ELSE IF name \in DOMAIN cs[c].dict
         THEN [found |-> TRUE, value |-> cs[c].dict[name]]
         ELSE ClassLookup(cs, cs[c].base, name)

\* obj.name: the instance dictionary first, then the class and its bases
GetAttr(m, o, name) ==
    IF name \in DOMAIN m.heap[o].dict
    THEN [found |-> TRUE, value |-> m.heap[o].dict[name]]
    ELSE ClassLookup(m.classes, m.heap[o].cls, name)

ErrorAttrs == {"errno", "message", "retriable"}

\* what a caller can read off a value: errno, message and retriable of an
\* error instance (an attribute that does not resolve is left out), nothing
\* off any other value
View(m, v) ==
    IF v.type = "object"
    THEN [a \in {b \in ErrorAttrs : GetAttr(m, v.id, b).found} |->
              GetAttr(m, v.id, a).value]
    ELSE NoAttrs

(***************************************************************************)
(* _check_error, one operator per statement.  A state s of an activation   *)
(* is the memory it runs on and its frame.                                 *)
(***************************************************************************)
Returned(v) == [kind |-> "return", value |-> v]

Raised(v) == [kind |-> "raise", value |-> v]

Pending == [kind |-> "pending", value |-> NoneValue]

Frame(responseOrErrcode, raiseException) ==
    [pc |-> "bind",
     locals |-> [responseOrErrcode |-> responseOrErrcode,
                 raiseException |-> raiseException],
     outcome |-> Pending]

Goto(s, pc) == [s EXCEPT !.frame.pc = pc]

SetLocal(s, name, value) ==
    [s EXCEPT !.frame.locals = (name :> value) @@ @]

Finish(s, outcome) ==
    [s EXCEPT !.frame.pc = "done", !.frame.outcome = outcome]

isinstance_int(v) == v.type = "int"

dict_get(d, k) == IF k \in DOMAIN d THEN d[k] ELSE NoneValue

\* DoBind without the isinstance test: .error is read off every argument
DoBindNoIsinstance(s) ==
    LET a == s.frame.locals.responseOrErrcode IN
    IF "error" \in DOMAIN a
    THEN Goto(SetLocal(s, "errno", a.error), "test_zero")
    ELSE Finish(s, Raised(AttributeError))

\* DoBind reading .offset off a response that has one
DoBindOffset(s) ==
    LET a == s.frame.locals.responseOrErrcode IN
    IF isinstance_int(a)
    THEN Goto(SetLocal(s, "errno", a.value), "test_zero")
    ELSE IF "offset" \in DOMAIN a
         THEN Goto(SetLocal(s, "errno", a.offset), "test_zero")
         ELSE Goto(SetLocal(s, "errno", a.error), "test_zero")

\* errno = responseOrErrcode, or errno = responseOrErrcode.error
DoBind(s) ==
    LET a == s.frame.locals.responseOrErrcode IN
    IF isinstance_int(a)
    THEN Goto(SetLocal(s, "errno", a.value), "test_zero")
    ELSE IF "error" \in DOMAIN a
         THEN Goto(SetLocal(s, "errno", a.error), "test_zero")
         ELSE Finish(s, Raised(AttributeError))

\* if errno == 0: return None
DoTestZero(s) ==
    IF s.frame.locals.errno = 0
    THEN Finish(s, Returned(NoneValue))
    ELSE Goto(s, "lookup")

\* DoLookup with errnos.setdefault(errno, BrokerResponseError) for .get
DoLookupSetdefault(s) ==
    LET e == s.frame.locals.errno
        d == IF e \in DOMAIN s.mem.errnos
             THEN s.mem.errnos
             ELSE (e :> Class("BrokerResponseError")) @@ s.mem.errnos
    IN  Goto(SetLocal([s EXCEPT !.mem.errnos = d], "cls", d[e]), "construct")

\* cls = BrokerResponseError.errnos.get(errno)
DoLookup(s) ==
    Goto(SetLocal(s, "cls", dict_get(s.mem.errnos, s.frame.locals.errno)),
         "construct")

\* DoConstruct keeping one generic error and handing it to every caller
DoConstructShared(s) ==
    LET generic == s.frame.locals.cls = NoneValue
        kept == {o \in DOMAIN s.mem.heap :
                     s.mem.heap[o].cls = "BrokerResponseError"}
        cls == IF generic THEN Class("BrokerResponseError")
               ELSE s.frame.locals.cls
        made == IF generic /\ kept # {} THEN s
                ELSE [s EXCEPT !.mem.heap = Instantiate(@, cls)]
        o == IF generic /\ kept # {} THEN CHOOSE k \in kept : TRUE
             ELSE Len(made.mem.heap)
    IN  Goto(SetLocal(made, "error", o),
             IF generic THEN "set_errno" ELSE "exit")

\* if cls is None: error = BrokerResponseError()  else: error = cls()
DoConstruct(s) ==
    LET generic == s.frame.locals.cls = NoneValue
        cls == IF generic THEN Class("BrokerResponseError")
               ELSE s.frame.locals.cls
        made == [s EXCEPT !.mem.heap = Instantiate(@, cls)]
    IN  Goto(SetLocal(made, "error", Len(made.mem.heap)),
             IF generic THEN "set_errno" ELSE "exit")

\* DoSetErrno without the store: the generic error keeps no code
DoSetErrnoSkipped(s) == Goto(s, "exit")

\* DoSetErrno storing on the class: BrokerResponseError.errno = errno
DoSetErrnoOnClass(s) ==
    Goto([s EXCEPT !.mem.classes["BrokerResponseError"].dict =
                       ("errno" :> s.frame.locals.errno) @@ @],
         "exit")

\* error.errno = errno
DoSetErrno(s) ==
    Goto([s EXCEPT !.mem.heap = SetAttr(@, s.frame.locals.error, "errno",
                                        s.frame.locals.errno)],
         "exit")

\* DoExit ignoring raiseException: the error is always returned
DoExitReturnOnly(s) == Finish(s, Returned(Ref(s.frame.locals.error)))

\* if raiseException: raise error  else: return error
DoExit(s) ==
    IF s.frame.locals.raiseException
    THEN Finish(s, Raised(Ref(s.frame.locals.error)))
    ELSE Finish(s, Returned(Ref(s.frame.locals.error)))

RunStep(s) ==
    CASE s.frame.pc = "bind" -> DoBind(s)
      [] s.frame.pc = "test_zero" -> DoTestZero(s)
      [] s.frame.pc = "lookup" -> DoLookup(s)
      [] s.frame.pc = "construct" -> DoConstruct(s)
      [] s.frame.pc = "set_errno" -> DoSetErrno(s)
      [] s.frame.pc = "exit" -> DoExit(s)

RECURSIVE Run(_)
Run(s) == IF s.frame.pc = "done" THEN s ELSE Run(RunStep(s))

\* a whole call, run to its return or raise on memory m
_check_error(m, responseOrErrcode, raiseException) ==
    Run([mem |-> m, frame |-> Frame(responseOrErrcode, raiseException)])

(***************************************************************************)
(* Inputs.                                                                 *)
(***************************************************************************)
Codes == (-MaxNegCode .. MaxCode) \cup {LargeCode}

\* the call shapes of one code: the bare integer and responses carrying it
Shapes(e) ==
    {IntValue(e),
     ProduceResponse("t1", 0, e, 14),
     ProduceResponse("t1", 3, e, 14),
     FetchResponse("t1", 3, e, 13, <<>>),
     OffsetResponse("t1", 3, e, <<14>>),
     OffsetCommitResponse("t1", 3, e),
     OffsetFetchResponse("t1", 3, 14, "m", e),
     ConsumerMetadataResponse(e, 3, "h", 9092)}

Args == UNION {Shapes(e) : e \in Codes}

ErrnoOf(a) == IF isinstance_int(a) THEN a.value ELSE a.error

\* a mix of zero, known and unknown codes
MixedCodes == {0, 13, 14, MaxCode - 2, -2}

MixedArgs ==
    UNION {{IntValue(e), OffsetCommitResponse("t1", 3, e)} : e \in MixedCodes}

BuildNames ==
    {"StaleLeaderEpochCodeError", "NetworkException",
     "OffsetsLoadInProgressError", "CoordinatorLoadInProgress"}

ConcurrentArgs ==
    {IntValue(e) : e \in {0, 3, MaxCode - 2, MaxCode - 1}}
        \cup {ProduceResponse("t1", 0, MaxCode - 2, 14)}

Callers == 1 .. NumCallers

(***************************************************************************)
(* State machine.                                                          *)
(***************************************************************************)
Mem == [errnos |-> errnos, classes |-> classes, heap |-> heap]

Import ==
    /\ errnos = BrokerResponseError_errnos
    /\ classes = ClassDecls
    /\ heap = <<>>

Init ==
    /\ Import
    /\ frames = <<>>
    /\ log = <<>>

\* a sequential caller makes one complete call and keeps what it got
Call(arg, raiseException) ==
    LET s == _check_error(Mem, arg, raiseException) IN
    /\ errnos' = s.mem.errnos
    /\ classes' = s.mem.classes
    /\ heap' = s.mem.heap
    /\ log' = Append(log, [op |-> "_check_error",
                           arg |-> arg,
                           raiseException |-> raiseException,
                           outcome |-> s.frame.outcome,
                           seen |-> View(s.mem, s.frame.outcome.value)])
    /\ UNCHANGED frames

\* a caller builds an error itself, through a name of the module
Build(name) ==
    LET h == Instantiate(heap, ModuleNames[name])
        m == [Mem EXCEPT !.heap = h]
    IN  /\ heap' = h
        /\ log' = Append(log, [op |-> "build",
                               name |-> name,
                               outcome |-> Returned(Ref(Len(h))),
                               seen |-> View(m, Ref(Len(h)))])
        /\ UNCHANGED <<errnos, classes, frames>>

\* calls on one code, in any shape and either mode
Classify ==
    \E arg \in Args, raiseException \in BOOLEAN :
        /\ Len(log) < MaxCalls
        /\ log # <<>> => ErrnoOf(arg) = ErrnoOf(log[1].arg)
        /\ Call(arg, raiseException)

Next == Classify

Spec == Init /\ [][Next]_vars

\* calls on a mix of codes, and errors built by name
ClassifyMixed ==
    \E arg \in MixedArgs, raiseException \in BOOLEAN :
        /\ Len(log) < MaxSeqCalls
        /\ Call(arg, raiseException)

BuildByName ==
    \E name \in BuildNames :
        /\ Len(log) < MaxSeqCalls
        /\ Build(name)

NextSeq == ClassifyMixed \/ BuildByName

SpecSeq == Init /\ [][NextSeq]_vars

\* concurrent callers, one statement at a time
InitConc ==
    /\ Import
    /\ frames \in [Callers -> {Frame(a, r) : a \in ConcurrentArgs,
                                             r \in BOOLEAN}]
    /\ log = <<>>

Bind(c) ==
    /\ frames[c].pc = "bind"
    /\ LET s == DoBind([mem |-> Mem, frame |-> frames[c]]) IN
        /\ errnos' = s.mem.errnos
        /\ classes' = s.mem.classes
        /\ heap' = s.mem.heap
        /\ frames' = [frames EXCEPT ![c] = s.frame]
    /\ UNCHANGED log

TestZero(c) ==
    /\ frames[c].pc = "test_zero"
    /\ LET s == DoTestZero([mem |-> Mem, frame |-> frames[c]]) IN
        /\ errnos' = s.mem.errnos
        /\ classes' = s.mem.classes
        /\ heap' = s.mem.heap
        /\ frames' = [frames EXCEPT ![c] = s.frame]
    /\ UNCHANGED log

Lookup(c) ==
    /\ frames[c].pc = "lookup"
    /\ LET s == DoLookup([mem |-> Mem, frame |-> frames[c]]) IN
        /\ errnos' = s.mem.errnos
        /\ classes' = s.mem.classes
        /\ heap' = s.mem.heap
        /\ frames' = [frames EXCEPT ![c] = s.frame]
    /\ UNCHANGED log

Construct(c) ==
    /\ frames[c].pc = "construct"
    /\ LET s == DoConstruct([mem |-> Mem, frame |-> frames[c]]) IN
        /\ errnos' = s.mem.errnos
        /\ classes' = s.mem.classes
        /\ heap' = s.mem.heap
        /\ frames' = [frames EXCEPT ![c] = s.frame]
    /\ UNCHANGED log

SetErrno(c) ==
    /\ frames[c].pc = "set_errno"
    /\ LET s == DoSetErrno([mem |-> Mem, frame |-> frames[c]]) IN
        /\ errnos' = s.mem.errnos
        /\ classes' = s.mem.classes
        /\ heap' = s.mem.heap
        /\ frames' = [frames EXCEPT ![c] = s.frame]
    /\ UNCHANGED log

Exit(c) ==
    /\ frames[c].pc = "exit"
    /\ LET s == DoExit([mem |-> Mem, frame |-> frames[c]]) IN
        /\ errnos' = s.mem.errnos
        /\ classes' = s.mem.classes
        /\ heap' = s.mem.heap
        /\ frames' = [frames EXCEPT ![c] = s.frame]
    /\ UNCHANGED log

NextConc ==
    \E c \in Callers :
        \/ Bind(c)
        \/ TestZero(c)
        \/ Lookup(c)
        \/ Construct(c)
        \/ SetErrno(c)
        \/ Exit(c)

SpecConc == InitConc /\ [][NextConc]_vars

(***************************************************************************)
(* Properties.                                                             *)
(***************************************************************************)
CallIdx == {i \in DOMAIN log : log[i].op = "_check_error"}

BuildIdx == {i \in DOMAIN log : log[i].op = "build"}

CodeAt(i) == ErrnoOf(log[i].arg)

Registered == {errnos[c] : c \in DOMAIN errnos}

\* the outcome carries an error instance, raised or returned as asked
IsError(e) ==
    /\ e.outcome.value.type = "object"
    /\ e.outcome.kind = IF e.raiseException THEN "raise" ELSE "return"

IsSuccess(e) == e.outcome = Returned(NoneValue)

IsKnownError(e) ==
    /\ IsError(e)
    /\ Class(heap[e.outcome.value.id].cls) \in Registered

IsGenericError(e) ==
    /\ IsError(e)
    /\ heap[e.outcome.value.id].cls = "BrokerResponseError"

Count(b) == IF b THEN 1 ELSE 0

\* the documented table: -1 and each of 1 .. 72
TableCodes == {-1} \cup (1 .. 72)

\* the classes declaring errno c
DeclaredWith(c) ==
    {n \in DOMAIN ClassDecls :
         /\ "errno" \in DOMAIN ClassDecls[n].dict
         /\ ClassDecls[n].dict.errno = c}

RECURSIVE IsSubclass(_, _)
IsSubclass(c, b) ==
    \/ c = b
    \/ c \in DOMAIN classes /\ IsSubclass(classes[c].base, b)

\* C1: every call ends as exactly one of Success (iff the code is 0), a
\* KnownError (iff the code is non-zero and a key of the registry) or a
\* GenericError (iff the code is non-zero and no key of the registry), and
\* never in an internal failure.
C1_Partition ==
    \A i \in CallIdx :
        LET e == log[i]
            c == CodeAt(i)
        IN  /\ e.outcome.kind \in {"return", "raise"}
            /\ e.outcome.value.type \in {"NoneType", "object"}
            /\ IsSuccess(e) <=> c = 0
            /\ IsKnownError(e) <=> (c # 0 /\ c \in DOMAIN errnos)
            /\ IsGenericError(e) <=> (c # 0 /\ c \notin DOMAIN errnos)
            /\ Count(IsSuccess(e)) + Count(IsKnownError(e))
                   + Count(IsGenericError(e)) = 1

C1_Witness ==
    /\ Len(log) = 2
    /\ log[1].arg = IntValue(-2) /\ IsGenericError(log[1])
    /\ log[2].arg = IntValue(-2) /\ ~log[2].raiseException
    /\ log[1].raiseException

\* C2: a call on a code of the table yields an error whose errno is that
\* code and whose message and retriable flag are those of the one class
\* declared with that errno (3 is UNKNOWN_TOPIC_OR_PARTITION and retriable,
\* 18 is RECORD_LIST_TOO_LARGE and not retriable, -1 is the UnknownError
\* class and no generic error); the registry has every code of the table,
\* each under the class declaring that errno, every class declaring an errno
\* is the one registered under it (so one class per code), and no class is
\* registered under two codes.
C2_Table ==
    /\ \A c \in TableCodes :
           /\ c \in DOMAIN errnos
           /\ errnos[c].name \in DOMAIN ClassDecls
           /\ "errno" \in DOMAIN ClassDecls[errnos[c].name].dict
           /\ ClassDecls[errnos[c].name].dict.errno = c
    /\ \A n \in DOMAIN ClassDecls :
           "errno" \in DOMAIN ClassDecls[n].dict =>
               /\ ClassDecls[n].dict.errno \in DOMAIN errnos
               /\ errnos[ClassDecls[n].dict.errno] = Class(n)
    /\ Cardinality(Registered) = Cardinality(DOMAIN errnos)
    /\ \A i \in CallIdx :
           LET e == log[i]
               c == CodeAt(i)
           IN  c \in TableCodes =>
                   LET n == CHOOSE n \in DeclaredWith(c) : TRUE IN
                   /\ IsError(e)
                   /\ e.seen =
                          [errno |-> c,
                           message |-> ClassDecls[n].dict.message,
                           retriable |->
                               ClassDecls[n].base
                                   = "RetriableBrokerResponseError"]
                   /\ c = 3 =>
                          e.seen =
                              [errno |-> 3,
                               message |-> Str("UNKNOWN_TOPIC_OR_PARTITION"),
                               retriable |-> TRUE]
                   /\ c = 18 =>
                          e.seen =
                              [errno |-> 18,
                               message |-> Str("RECORD_LIST_TOO_LARGE"),
                               retriable |-> FALSE]
                   /\ c = -1 =>
                          /\ heap[e.outcome.value.id].cls = "UnknownError"
                          /\ e.seen.message = Str("UNKNOWN_SERVER_ERROR")
                          /\ ~IsGenericError(e)

C2_Witness ==
    /\ Len(log) = 2
    /\ CodeAt(1) = 18 /\ IsKnownError(log[1])
    /\ CodeAt(2) = 18 /\ log[2].seen.message = Str("RECORD_LIST_TOO_LARGE")

\* C3: a call on a non-zero code that is no key of the registry yields a
\* generic error whose errno is the code, whose message is None (which is
\* not the empty string) and which is not retriable.
C3_Generic ==
    \A i \in CallIdx :
        LET e == log[i]
            c == CodeAt(i)
        IN  (c # 0 /\ c \notin DOMAIN errnos) =>
                /\ IsGenericError(e)
                /\ e.seen = [errno |-> c, message |-> NoneValue,
                             retriable |-> FALSE]
                /\ e.seen.message # Str("")

C3_Witness ==
    \E i \in CallIdx :
        /\ CodeAt(i) = -2
        /\ log[i].seen.errno = -2
        /\ log[i].seen.message = NoneValue

\* C4: for a non-zero code the error raised with raiseException and the
\* error returned without it agree in errno, message and retriable; for
\* code 0 both calls return None.
C4_Modes ==
    \A i, j \in CallIdx :
        (/\ CodeAt(i) = CodeAt(j)
         /\ log[i].raiseException
         /\ ~log[j].raiseException) =>
            IF CodeAt(i) = 0
            THEN IsSuccess(log[i]) /\ IsSuccess(log[j])
            ELSE /\ log[i].outcome.kind = "raise"
                 /\ log[j].outcome.kind = "return"
                 /\ log[i].outcome.value.type = "object"
                 /\ log[j].outcome.value.type = "object"
                 /\ log[i].seen = log[j].seen
                 /\ View(Mem, log[i].outcome.value)
                        = View(Mem, log[j].outcome.value)

C4_Witness ==
    /\ Len(log) = 2
    /\ CodeAt(1) = 7 /\ log[1].outcome.kind = "raise"
    /\ CodeAt(2) = 7 /\ log[2].outcome.kind = "return"

\* C5: in either mode a call on a response whose error field is c ends as
\* the call on the bare integer c does, whatever the response's type and
\* other fields; with error 0 it returns None.
C5_Shapes ==
    \A i, j \in CallIdx :
        (/\ CodeAt(i) = CodeAt(j)
         /\ log[i].raiseException = log[j].raiseException) =>
            /\ log[i].outcome.kind = log[j].outcome.kind
            /\ log[i].outcome.value.type = log[j].outcome.value.type
            /\ log[i].seen = log[j].seen
            /\ CodeAt(i) = 0 => IsSuccess(log[i]) /\ IsSuccess(log[j])

C5_Witness ==
    /\ Len(log) = 2
    /\ log[1].arg = IntValue(3)
    /\ log[2].arg = OffsetFetchResponse("t1", 3, 14, "m", 3)
    /\ log[1].raiseException /\ log[2].raiseException
    /\ log[2].seen.errno = 3

\* C6: after any sequence of calls the registry and the classes are as
\* imported, every result so far still reads as it did when it was
\* delivered, and two calls on one code delivered equal results.
C6_Frame ==
    /\ errnos = BrokerResponseError_errnos
    /\ classes = ClassDecls
    /\ \A i \in DOMAIN log :
           View(Mem, log[i].outcome.value) = log[i].seen
    /\ \A i, j \in CallIdx :
           CodeAt(i) = CodeAt(j) =>
               /\ log[i].seen = log[j].seen
               /\ log[i].outcome.value.type = log[j].outcome.value.type

C6_Witness ==
    /\ Len(log) = 3
    /\ CallIdx = {1, 2, 3}
    /\ CodeAt(1) = MaxCode - 2 /\ CodeAt(2) = -2 /\ CodeAt(3) = MaxCode - 2
    /\ log[1].seen.errno = MaxCode - 2
    /\ log[2].seen.errno = -2
    /\ log[3].outcome.value # log[1].outcome.value

\* what a caller running alone on the imported registry and classes gets
Alone(f) ==
    _check_error([errnos |-> BrokerResponseError_errnos,
                  classes |-> ClassDecls, heap |-> <<>>],
                 f.locals.responseOrErrcode, f.locals.raiseException)

\* C7: under every interleaving a caller that has finished holds what it
\* would hold running alone: None for 0, the registered class's error for a
\* known code, a generic error with its own code for an unknown code.
C7_Isolation ==
    \A c \in Callers :
        frames[c].pc = "done" =>
            LET f == frames[c]
                a == Alone(f)
                code == ErrnoOf(f.locals.responseOrErrcode)
                v == View(Mem, f.outcome.value)
            IN  /\ f.outcome.kind = a.frame.outcome.kind
                /\ f.outcome.value.type = a.frame.outcome.value.type
                /\ v = View(a.mem, a.frame.outcome.value)
                /\ code = 0 => f.outcome = Returned(NoneValue)
                /\ code # 0 =>
                       /\ f.outcome.value.type = "object"
                       /\ "errno" \in DOMAIN v /\ v.errno = code
                       /\ heap[f.outcome.value.id].cls =
                              IF code \in DOMAIN BrokerResponseError_errnos
                              THEN BrokerResponseError_errnos[code].name
                              ELSE "BrokerResponseError"

C7_Witness ==
    /\ \A c \in Callers : frames[c].pc = "done"
    /\ ErrnoOf(frames[1].locals.responseOrErrcode) = MaxCode - 2
    /\ ErrnoOf(frames[2].locals.responseOrErrcode) = MaxCode - 1
    /\ frames[1].locals.error = 2
    /\ frames[2].locals.error = 1
    /\ View(Mem, frames[1].outcome.value).errno = MaxCode - 2
    /\ View(Mem, frames[2].outcome.value).errno = MaxCode - 1

RetriableListed == {3, 5, 6, 7, 13, 15, 16, 19, 41}

NonRetriableListed == {29, 30, 31, 53, 65, 10, 12, 18, 42}

\* C8: the errors of codes 3, 5, 6, 7, 13, 15, 16, 19 and 41 are retriable,
\* those of codes 29, 30, 31, 53, 65, 10, 12, 18 and 42 are not, and an
\* error of a known code is retriable exactly when its class derives from
\* RetriableBrokerResponseError.
C8_Retriable ==
    \A i \in CallIdx :
        LET e == log[i]
            c == CodeAt(i)
        IN  (c # 0 /\ c \in DOMAIN errnos) =>
                /\ IsError(e)
                /\ "retriable" \in DOMAIN e.seen
                /\ c \in RetriableListed => e.seen.retriable
                /\ c \in NonRetriableListed => ~e.seen.retriable
                /\ e.seen.retriable <=>
                       IsSubclass(heap[e.outcome.value.id].cls,
                                  "RetriableBrokerResponseError")

C8_Witness ==
    /\ Len(log) = 2
    /\ CodeAt(1) = 41 /\ log[1].seen.retriable
    /\ CodeAt(2) = 41 /\ log[2].seen.retriable
    /\ log[1].raiseException # log[2].raiseException

\* C9 as stated: the registry holds exactly 71 entries with codes in
\* 1 .. 72, one entry for -1, none for 0 and none outside that range.
C9_Original ==
    /\ Cardinality({c \in DOMAIN errnos : 1 <= c /\ c <= 72}) = 71
    /\ -1 \in DOMAIN errnos
    /\ 0 \notin DOMAIN errnos
    /\ DOMAIN errnos \subseteq TableCodes

\* C9: the registry holds exactly 72 entries with codes in 1 .. 72 (every
\* code of that range), one entry for -1, none for 0 and none outside that
\* range.
C9_Registry ==
    /\ Cardinality({c \in DOMAIN errnos : 1 <= c /\ c <= 72}) = 72
    /\ -1 \in DOMAIN errnos
    /\ 0 \notin DOMAIN errnos
    /\ DOMAIN errnos \subseteq TableCodes

C9_Witness ==
    /\ Len(log) = 2
    /\ CodeAt(1) = 73 /\ IsGenericError(log[1])
    /\ CodeAt(2) = 73 /\ IsGenericError(log[2])

AliasOf ==
    [StaleLeaderEpochCodeError |-> [code |-> 13, name |-> "NetworkException"],
     OffsetsLoadInProgressError |->
         [code |-> 14, name |-> "CoordinatorLoadInProgress"]]

\* C10: an error built through StaleLeaderEpochCodeError (code 13) or
\* OffsetsLoadInProgressError (code 14) is of the class, and reads with the
\* errno, message and retriable flag, of the error a call on that code
\* yields and of one built through NetworkException or
\* CoordinatorLoadInProgress; the alias's class is registered under that
\* code only.
C10_Aliases ==
    \A a \in DOMAIN AliasOf :
        /\ {c \in DOMAIN errnos : errnos[c] = ModuleNames[a]}
               = {AliasOf[a].code}
        /\ \A i \in BuildIdx :
               log[i].name = a =>
                   /\ "errno" \in DOMAIN log[i].seen
                   /\ log[i].seen.errno = AliasOf[a].code
                   /\ \A j \in CallIdx :
                          CodeAt(j) = AliasOf[a].code =>
                              /\ log[j].seen = log[i].seen
                              /\ heap[log[j].outcome.value.id].cls
                                     = heap[log[i].outcome.value.id].cls
                   /\ \A j \in BuildIdx :
                          log[j].name = AliasOf[a].name =>
                              /\ log[j].seen = log[i].seen
                              /\ heap[log[j].outcome.value.id].cls
                                     = heap[log[i].outcome.value.id].cls

C10_Witness ==
    /\ Len(log) = 3
    /\ log[1].op = "build" /\ log[1].name = "StaleLeaderEpochCodeError"
    /\ log[2].op = "_check_error" /\ log[2].arg = IntValue(13)
    /\ log[3].op = "build" /\ log[3].name = "NetworkException"
    /\ log[1].seen.message = Str("NETWORK_EXCEPTION")

====
